---------------------------- MODULE Spec2Model ----------------------------
(***************************************************************************)
(* Model of the audio enhancement programs audio.py and audio_advanced.py. *)
(*                                                                         *)
(* Samples are fixed-point numbers: the integer One stands for the         *)
(* amplitude 1.0, so a sample s of the program is the integer 1000 * s.    *)
(* Filter coefficients and FFT twiddle factors use the same unit.          *)
(*                                                                         *)
(* Two specifications:                                                     *)
(*   SpecFn  applies the signal-conditioning functions to bounded inputs;  *)
(*   Spec    is the real-time console of audio_advanced.py: the Tk thread  *)
(*           (controls, start button, plot timer), the stream threads and  *)
(*           the audio callbacks, interleaved statement by statement.      *)
(***************************************************************************)
EXTENDS Integers, Sequences, FiniteSets, TLC

\* 1.0 in fixed point (the clip limits of np.clip(..., -1.0, 1.0)).
One == 1000

\* ---------------------------------------------------------------- bounds
\* Longest block the function specification draws.
MaxLen == 3
\* Half of the stream's block size (the block size, 512, is even).
HalfBlock == 1
\* Start requests the model follows.
MaxSessions == 2
\* Outside events the model follows: start requests, control changes and
\* blocks delivered by the device.
MaxEvents == 4

\* ------------------------------------------------------------ arithmetic
Abs(v) == IF v < 0 THEN -v ELSE v

\* Division rounding toward zero.
Quot(p, q) == IF p >= 0 THEN p \div q ELSE -((-p) \div q)

Max2(p, q) == IF p >= q THEN p ELSE q

Min2(p, q) == IF p <= q THEN p ELSE q

RECURSIVE SqrtBetween(_, _, _)
SqrtBetween(v, lo, hi) ==
    IF lo >= hi THEN lo
    ELSE LET mid == (lo + hi + 1) \div 2
         IN  IF mid * mid <= v THEN SqrtBetween(v, mid, hi)
                               ELSE SqrtBetween(v, lo, mid - 1)

\* Integer square root (np.abs of a complex bin).
ISqrt(v) == SqrtBetween(v, 0, Min2(v, 46340))

RECURSIVE SumTo(_, _)
\* f[1] + ... + f[n]
SumTo(f, n) == IF n = 0 THEN 0 ELSE f[n] + SumTo(f, n - 1)

MaxAbs(x) ==
    IF Len(x) = 0 THEN 0
    ELSE CHOOSE m \in {Abs(x[i]) : i \in 1..Len(x)} :
             \A i \in 1..Len(x) : Abs(x[i]) <= m

Zeros(n) == [i \in 1..n |-> 0]

\* A signal travelling through the pipeline: its samples, the stages that
\* have been applied to it, in order, and whether a stage raised.
Signal(x) == [x |-> x, log |-> <<>>, raised |-> FALSE]

Stage(sig, name, x) ==
    IF sig.raised THEN sig
    ELSE [x |-> x, log |-> Append(sig.log, name), raised |-> FALSE]

Raise(sig, name) ==
    [x |-> <<>>, log |-> Append(sig.log, name), raised |-> TRUE]

\* --------------------------------------------------------- numpy / scipy
\* cos(2 pi t / n) and sin(2 pi t / n) in fixed point, n in 1..6.
CosT(n, t) ==
    CASE n = 1 -> <<1000>>[t + 1]
      [] n = 2 -> <<1000, -1000>>[t + 1]
      [] n = 3 -> <<1000, -500, -500>>[t + 1]
      [] n = 4 -> <<1000, 0, -1000, 0>>[t + 1]
      [] n = 5 -> <<1000, 309, -809, -809, 309>>[t + 1]
      [] n = 6 -> <<1000, 500, -500, -1000, -500, 500>>[t + 1]

SinT(n, t) ==
    CASE n = 1 -> <<0>>[t + 1]
      [] n = 2 -> <<0, 0>>[t + 1]
      [] n = 3 -> <<0, 866, -866>>[t + 1]
      [] n = 4 -> <<0, 1000, 0, -1000>>[t + 1]
      [] n = 5 -> <<0, 951, 588, -588, -951>>[t + 1]
      [] n = 6 -> <<0, 866, 866, 0, -866, -866>>[t + 1]

\* np.fft.rfft: the n \div 2 + 1 bins of a real block of length n, each a
\* pair <<re, im>>.  Bin k is  sum_j x[j] * exp(-2 pi i j k / n).
rfft(x) ==
    LET n == Len(x)
        re(k) == SumTo([j \in 1..n |-> x[j] * CosT(n, ((j - 1) * k) % n)], n)
        im(k) == SumTo([j \in 1..n |-> -(x[j] * SinT(n, ((j - 1) * k) % n))], n)
    IN  [b \in 1..(n \div 2 + 1) |-> <<Quot(re(b - 1), One), Quot(im(b - 1), One)>>]

\* The length np.fft.irfft gives its result when no n is passed: 2*(m-1)
\* for m bins.
irfft_len(m) == 2 * (m - 1)

\* np.fft.irfft without n: the spectrum carries no record of the length of
\* the block it came from.  The imaginary parts of the first and the last
\* bin are ignored.  The result is <<>> when the length is 0, which numpy
\* refuses (ValueError).
irfft(X) ==
    LET m == Len(X)
        n == irfft_len(m)
        mid(j) == SumTo([k \in 1..(m - 2) |->
                     2 * (X[k + 1][1] * CosT(n, (k * (j - 1)) % n)
                          - X[k + 1][2] * SinT(n, (k * (j - 1)) % n))], m - 2)
        last(j) == X[m][1] * CosT(n, ((m - 1) * (j - 1)) % n)
    IN  [j \in 1..n |-> Quot(X[1][1] * One + mid(j) + last(j), n * One)]

\* np.abs of a bin.
Magnitude(c) == ISqrt(c[1] * c[1] + c[2] * c[2])

\* m * exp(1j * np.angle(c)): the bin c rescaled to magnitude m.
WithMagnitude(c, m) ==
    LET mag == Magnitude(c)
    IN  IF mag = 0 THEN <<m, 0>>
        ELSE <<Quot(c[1] * m, mag), Quot(c[2] * m, mag)>>

\* np.clip(x, -1.0, 1.0)
np_clip(x) == [i \in 1..Len(x) |-> Max2(-One, Min2(One, x[i]))]

\* scipy.signal.lfilter(b, a, x): direct form, zero initial state,
\*   a[1]*y[n] = sum_k b[k]*x[n-k] - sum_{k>=1} a[k]*y[n-k].
RECURSIVE lfilter(_, _, _)
lfilter(b, a, x) ==
    IF Len(x) = 0 THEN <<>>
    ELSE LET n == Len(x)
             y == lfilter(b, a, SubSeq(x, 1, n - 1))
             ff == SumTo([k \in 1..Len(b) |->
                       IF n - k + 1 >= 1 THEN b[k] * x[n - k + 1] ELSE 0], Len(b))
             fb == SumTo([k \in 1..(Len(a) - 1) |->
                       IF n - k >= 1 THEN a[k + 1] * y[n - k] ELSE 0], Len(a) - 1)
         IN  Append(y, Quot(ff - fb, a[1]))


\* ------------------------------------------------------- audio_advanced.py
\* The noise gate's default threshold, 0.015.
GateThreshold == 15

\* design_iir_filter: scipy.signal.butter's band-pass numerator and
\* denominator.  A low-order Butterworth band-pass of the same shape (zeros
\* at 0 and at the Nyquist frequency, stable poles) stands for the 6th-order
\* result.
design_iir_filter == [b |-> <<500, 0, -500>>, a |-> <<1000, 0, 172>>]

\* noise_gate: np.where(np.abs(signal) < threshold, 0, signal)
noise_gate(sig) ==
    Stage(sig, "gate",
          [i \in 1..Len(sig.x) |->
              IF Abs(sig.x[i]) < GateThreshold THEN 0 ELSE sig.x[i]])

\* spectral_subtraction
spectral_subtraction(sig, noise_estimate) ==
    LET spectrum == rfft(sig.x)
        noise_spectrum == rfft(noise_estimate)
        clean_magnitude(k) ==
            Max2(Magnitude(spectrum[k]) - Magnitude(noise_spectrum[k]), 0)
        cleaned == [k \in 1..Len(spectrum) |->
                       WithMagnitude(spectrum[k], clean_magnitude(k))]
    IN  IF sig.raised THEN sig
        ELSE IF irfft_len(Len(spectrum)) = 0 THEN Raise(sig, "spectral")
        ELSE Stage(sig, "spectral", irfft(cleaned))

\* normalize_audio: audio / (np.max(np.abs(audio)) + 1e-6)
normalize_audio(sig) ==
    LET peak == MaxAbs(sig.x)
    IN  Stage(sig, "normalize",
              [i \in 1..Len(sig.x) |->
                  Quot(sig.x[i] * One * One, peak * One + 1)])

\* The filter call of process_audio and of apply_filter.
main_filter(sig, b, a) == Stage(sig, "filter", lfilter(b, a, sig.x))

\* filtered * gain
times_gain(sig, gain) ==
    Stage(sig, "gain", [i \in 1..Len(sig.x) |-> sig.x[i] * gain])

\* hard_clip with the clipping left out.
hard_clip_none(sig) == Stage(sig, "clip", sig.x)

\* np.clip(..., -1.0, 1.0) as a pipeline stage
hard_clip(sig) == Stage(sig, "clip", np_clip(sig.x))

\* process_audio with the noise gate moved ahead of the filter.
process_audio_gate_first(sig, b, a, gain, use_gate) ==
    LET audio == normalize_audio(sig)
        gated == IF use_gate THEN noise_gate(audio) ELSE audio
        filtered == main_filter(gated, b, a)
    IN  hard_clip(times_gain(filtered, gain))

\* process_audio
process_audio(sig, b, a, gain, use_gate) ==
    LET audio == normalize_audio(sig)
        filtered == main_filter(audio, b, a)
        gated == IF use_gate THEN noise_gate(filtered) ELSE filtered
    IN  hard_clip(times_gain(gated, gain))

\* The conditioning done by audio_callback on one block.
audio_callback_out(audio_in, noise_profile, gain, use_gate) ==
    LET co == design_iir_filter
        cleaned == spectral_subtraction(Signal(audio_in), noise_profile)
    IN  process_audio(cleaned, co.b, co.a, gain, use_gate)

\* ---------------------------------------------------------------- audio.py
\* design_filter: firwin's taps (no denominator) or butter's pair.  Short
\* filters of the requested band stand for the 101 taps and the 6th order.
design_filter(filter_type, use_fir) ==
    IF use_fir
    THEN [b |-> IF filter_type = "low" THEN <<250, 500, 250>>
                                       ELSE <<-250, 500, -250>>,
          a |-> <<>>]
    ELSE [b |-> IF filter_type = "low" THEN <<293, 586, 293>>
                                       ELSE <<293, -586, 293>>,
          a |-> <<1000, 0, 172>>]

\* apply_filter: lfilter(b, [1.0] if a is None else a, audio)
apply_filter(sig, b, a) == main_filter(sig, b, IF a = <<>> THEN <<One>> ELSE a)

\* amplify: np.clip(audio * gain, -1.0, 1.0)
amplify(sig, gain) == hard_clip(times_gain(sig, gain))

\* highpass_noise_removal: butter(4, cutoff, btype='high') and lfilter; a
\* first-order high-pass stands for the 4th-order one.
highpass_noise_removal(sig) ==
    Stage(sig, "highpass", lfilter(<<900, -900>>, <<1000, -800>>, sig.x))

\* The conditioning done by realtime_process_visual's callback on one block.
callback_out(in_audio, params) ==
    LET co == design_filter(params.filter_type, params.use_fir)
        cleaned == IF params.noise_reduction
                   THEN highpass_noise_removal(Signal(in_audio))
                   ELSE Signal(in_audio)
        filtered == apply_filter(cleaned, co.b, co.a)
    IN  amplify(filtered, params.gain)

\* ------------------------------------------------------------------ state
VARIABLES
    \* SpecFn: the call last made and what it returned
    fnCall, fnOut,
    \* the Tk control variables of the real-time tab
    gain_slider, noise_gate_var, record_var,
    \* AudioApp attributes shared by every stream
    realtime_buffer, recorded_audio,
    \* start requests so far; per start request: its stream thread's position
    \* and its audio callback's position and locals
    nStarted, thread, cb,
    \* whether an update_plot timer is pending; the buffer last plotted
    timerArmed, plotted,
    \* the file realtime_recorded.wav
    wav,
    \* bookkeeping of the model: outside events so far
    nEvents,
    \* history: parameter states that existed while a callback was reading
    seen,
    \* history: per stream, the samples its callback produced with record on
    hRec,
    \* history: per stream, whether it wrote the file, and what it wrote
    flushed, wavOf,
    \* history: the ring the writes made so far should have produced
    ideal,
    \* history: per stream, whether the device has reported an error status
    \* to the callback now running
    statusReported

fnVars == <<fnCall, fnOut>>

ctlVars == <<gain_slider, noise_gate_var, record_var>>

uiVars == <<ctlVars, nEvents>>

appVars == <<realtime_buffer, recorded_audio, nStarted, thread, cb,
             timerArmed, plotted, wav>>

histVars == <<seen, hRec, flushed, wavOf, ideal, statusReported>>

vars == <<fnVars, uiVars, appVars, histVars>>

\* realtime_process: blocksize = 512 and fs = 44100 samples of rolling
\* buffer, scaled down: an even block, and a buffer of more than two blocks
\* that is not a whole number of blocks.
blocksize == 2 * HalfBlock

fs == 2 * blocksize + 1

Sessions == 1..MaxSessions

\* Positions of a stream thread in which its stream is open.
Active == {"sleeping", "leaving", "unwinding"}

Running(s) == thread[s] \in Active

CbIdle == [pc |-> "idle", in |-> <<>>, gain |-> 0, gate |-> FALSE,
           rec |-> FALSE, out |-> <<>>, w |-> 0]

\* The control variables as one parameter state.
Params == <<gain_slider, noise_gate_var, record_var>>

\* np_roll losing the samples it should wrap around.
np_roll_drop(buf, n) == SubSeq(buf, n + 1, Len(buf))

\* np.roll(buf, -n)
np_roll(buf, n) == SubSeq(buf, n + 1, Len(buf)) \o SubSeq(buf, 1, n)

RECURSIVE np_concatenate(_)
\* np.concatenate of a list of blocks
np_concatenate(blocks) ==
    IF blocks = <<>> THEN <<>>
    ELSE Head(blocks) \o np_concatenate(Tail(blocks))

InRange(x) == \A i \in 1..Len(x) : -One <= x[i] /\ x[i] <= One

\* ----------------------------------------------------------------- SpecFn
Levels == {-1000, 0, 10, 600}

FnBlocks == UNION {[1..n -> Levels] : n \in 1..MaxLen}

FnNoise(n) == {Zeros(n), [i \in 1..n |-> 100]}

FnGains == {0, 1, 3, 10}

NoCall == [op |-> "none", audio |-> <<>>, noise |-> <<>>, gain |-> 0,
           flag |-> FALSE, filter_type |-> "low", use_fir |-> TRUE]

Call(op, audio, noise, gain, flag) ==
    [NoCall EXCEPT !.op = op, !.audio = audio, !.noise = noise,
                   !.gain = gain, !.flag = flag]

\* The calls SpecFn makes: one function and its arguments each.
FnCalls ==
    UNION {
        {Call("amplify", audio, <<>>, gain, FALSE) :
            gain \in FnGains}
        \cup {Call("noise_gate", audio, <<>>, 0, FALSE)}
        \cup {Call("spectral_subtraction", audio, noise, 0, FALSE) :
            noise \in FnNoise(Len(audio))}
        \cup {Call("process_audio", audio, <<>>, gain, use_gate) :
            gain \in FnGains, use_gate \in BOOLEAN}
        \cup {Call("audio_callback", audio, Zeros(Len(audio)), gain, use_gate) :
            gain \in FnGains, use_gate \in BOOLEAN}
        \cup {[Call("callback", audio, <<>>, gain, nr)
                  EXCEPT !.filter_type = ft, !.use_fir = fir] :
            gain \in FnGains, nr \in BOOLEAN, ft \in {"low", "high"},
            fir \in BOOLEAN}
        : audio \in FnBlocks}

\* No call has returned yet.
Pending == [x |-> <<>>, log |-> <<"pending">>, raised |-> FALSE]

\* SpecFn starts with a call to make; the console is idle throughout.
FnInit ==
    /\ fnCall \in FnCalls
    /\ fnOut = Pending
    /\ gain_slider = 3
    /\ noise_gate_var = TRUE
    /\ record_var = FALSE
    /\ realtime_buffer = <<>>
    /\ recorded_audio = <<>>
    /\ nStarted = 0
    /\ thread = [s \in Sessions |-> "none"]
    /\ cb = [s \in Sessions |-> CbIdle]
    /\ timerArmed = FALSE
    /\ plotted = <<>>
    /\ wav = [exists |-> FALSE, data |-> <<>>]
    /\ nEvents = 0
    /\ seen = [s \in Sessions |-> {}]
    /\ hRec = [s \in Sessions |-> <<>>]
    /\ flushed = [s \in Sessions |-> FALSE]
    /\ wavOf = [s \in Sessions |-> <<>>]
    /\ ideal = <<>>
    /\ statusReported = [s \in Sessions |-> FALSE]

FnAmplify ==
    /\ fnCall.op = "amplify" /\ fnOut = Pending
    /\ fnOut' = amplify(Signal(fnCall.audio), fnCall.gain)
    /\ UNCHANGED <<fnCall, uiVars, appVars, histVars>>

FnNoiseGate ==
    /\ fnCall.op = "noise_gate" /\ fnOut = Pending
    /\ fnOut' = noise_gate(Signal(fnCall.audio))
    /\ UNCHANGED <<fnCall, uiVars, appVars, histVars>>

FnSpectralSubtraction ==
    /\ fnCall.op = "spectral_subtraction" /\ fnOut = Pending
    /\ fnOut' = spectral_subtraction(Signal(fnCall.audio), fnCall.noise)
    /\ UNCHANGED <<fnCall, uiVars, appVars, histVars>>

FnProcessAudio ==
    /\ fnCall.op = "process_audio" /\ fnOut = Pending
    /\ fnOut' = process_audio(Signal(fnCall.audio), design_iir_filter.b,
                              design_iir_filter.a, fnCall.gain, fnCall.flag)
    /\ UNCHANGED <<fnCall, uiVars, appVars, histVars>>

FnAudioCallback ==
    /\ fnCall.op = "audio_callback" /\ fnOut = Pending
    /\ fnOut' = audio_callback_out(fnCall.audio, fnCall.noise, fnCall.gain,
                                   fnCall.flag)
    /\ UNCHANGED <<fnCall, uiVars, appVars, histVars>>

FnCallback ==
    /\ fnCall.op = "callback" /\ fnOut = Pending
    /\ fnOut' = callback_out(fnCall.audio,
                             [filter_type |-> fnCall.filter_type,
                              use_fir |-> fnCall.use_fir,
                              noise_reduction |-> fnCall.flag,
                              gain |-> fnCall.gain])
    /\ UNCHANGED <<fnCall, uiVars, appVars, histVars>>

FnNext ==
    \/ FnAmplify
    \/ FnNoiseGate
    \/ FnSpectralSubtraction
    \/ FnProcessAudio
    \/ FnAudioCallback
    \/ FnCallback

SpecFn == FnInit /\ [][FnNext]_vars

\* ------------------------------------------------------------------- Spec
\* Values the gain slider is moved between (its range is 1..6).
GainValues == {3, 6}

\* Blocks the device delivers: a loud one and a quiet one.
StreamBlocks ==
    {[i \in 1..blocksize |-> IF i % 2 = 1 THEN 600 ELSE -1000],
     [i \in 1..blocksize |-> IF i % 2 = 1 THEN 10 ELSE 0]}

\* Positions of a callback at which it has not yet read every control.
Reading == {"gain", "gate", "record"}

\* AudioApp.__init__ and setup_realtime_tab: gain 3.0, noise gate on,
\* recording off; no stream, no buffer yet.
Init ==
    /\ fnCall = NoCall
    /\ fnOut = Pending
    /\ gain_slider = 3
    /\ noise_gate_var = TRUE
    /\ record_var = FALSE
    /\ realtime_buffer = <<>>
    /\ recorded_audio = <<>>
    /\ nStarted = 0
    /\ thread = [s \in Sessions |-> "none"]
    /\ cb = [s \in Sessions |-> CbIdle]
    /\ timerArmed = FALSE
    /\ plotted = <<>>
    /\ wav = [exists |-> FALSE, data |-> <<>>]
    /\ nEvents = 0
    /\ seen = [s \in Sessions |-> {}]
    /\ hRec = [s \in Sessions |-> <<>>]
    /\ flushed = [s \in Sessions |-> FALSE]
    /\ wavOf = [s \in Sessions |-> <<>>]
    /\ ideal = <<>>
    /\ statusReported = [s \in Sessions |-> FALSE]

\* A control changes: every callback that is reading its parameters has now
\* lived through one more parameter state.
Witnessed(p) ==
    [s \in Sessions |-> IF cb[s].pc \in Reading THEN seen[s] \cup {p} ELSE seen[s]]

\* The user moves the gain slider.
SetGain(g) ==
    /\ nEvents < MaxEvents
    /\ g # gain_slider
    /\ gain_slider' = g
    /\ nEvents' = nEvents + 1
    /\ seen' = Witnessed(<<g, noise_gate_var, record_var>>)
    /\ UNCHANGED <<noise_gate_var, record_var, fnVars, appVars,
                   hRec, flushed, wavOf, ideal, statusReported>>

\* The user toggles "Enable Noise Gate".
ToggleGate ==
    /\ nEvents < MaxEvents
    /\ noise_gate_var' = ~noise_gate_var
    /\ nEvents' = nEvents + 1
    /\ seen' = Witnessed(<<gain_slider, ~noise_gate_var, record_var>>)
    /\ UNCHANGED <<gain_slider, record_var, fnVars, appVars,
                   hRec, flushed, wavOf, ideal, statusReported>>

\* The user toggles "Record Output".
ToggleRecord ==
    /\ nEvents < MaxEvents
    /\ record_var' = ~record_var
    /\ nEvents' = nEvents + 1
    /\ seen' = Witnessed(<<gain_slider, noise_gate_var, ~record_var>>)
    /\ UNCHANGED <<gain_slider, noise_gate_var, fnVars, appVars,
                   hRec, flushed, wavOf, ideal, statusReported>>

\* realtime_process, the start button's handler: a fresh buffer and a fresh
\* recording list replace the current ones, a stream thread is started and
\* an update_plot timer is registered.  Nothing is checked first.
realtime_process ==
    /\ nStarted < MaxSessions
    /\ nEvents < MaxEvents
    /\ nStarted' = nStarted + 1
    /\ nEvents' = nEvents + 1
    /\ realtime_buffer' = Zeros(fs)
    /\ recorded_audio' = <<>>
    /\ thread' = [thread EXCEPT ![nStarted + 1] = "opening"]
    /\ timerArmed' = TRUE
    /\ ideal' = Zeros(fs)
    /\ UNCHANGED <<fnVars, ctlVars, cb, plotted, wav,
                   seen, hRec, flushed, wavOf, statusReported>>

\* update_plot, the timer's handler: plots the buffer as it is and re-arms.
\* The window is never destroyed here, so the handler's early returns
\* (winfo_exists, TclError) are not taken.
update_plot ==
    /\ timerArmed
    /\ plotted' = realtime_buffer
    /\ UNCHANGED <<fnVars, uiVars, realtime_buffer, recorded_audio, nStarted,
                   thread, cb, timerArmed, wav, histVars>>

\* stream_thread enters "with sd.Stream(...)": the stream opens and the
\* thread goes to sleep.
OpenStream(s) ==
    /\ thread[s] = "opening"
    /\ thread' = [thread EXCEPT ![s] = "sleeping"]
    /\ UNCHANGED <<fnVars, uiVars, realtime_buffer, recorded_audio, nStarted,
                   cb, timerArmed, plotted, wav, histVars>>

\* sd.Stream(...) raises (PortAudioError): nothing in stream_thread catches
\* it, the thread ends.
OpenFails(s) ==
    /\ thread[s] = "opening"
    /\ thread' = [thread EXCEPT ![s] = "died"]
    /\ UNCHANGED <<fnVars, uiVars, realtime_buffer, recorded_audio, nStarted,
                   cb, timerArmed, plotted, wav, histVars>>

\* sd.sleep returns and the rest of the with-block runs, the stream still
\* open: the recording is written if the record box is ticked now.
\* np.concatenate of an empty list raises ValueError.
SleepEnds(s) ==
    /\ thread[s] = "sleeping"
    /\ IF ~record_var
       THEN /\ thread' = [thread EXCEPT ![s] = "leaving"]
            /\ UNCHANGED <<wav, flushed, wavOf>>
       ELSE IF recorded_audio = <<>>
       THEN /\ thread' = [thread EXCEPT ![s] = "unwinding"]
            /\ UNCHANGED <<wav, flushed, wavOf>>
       ELSE /\ thread' = [thread EXCEPT ![s] = "leaving"]
            /\ wav' = [exists |-> TRUE, data |-> np_concatenate(recorded_audio)]
            /\ flushed' = [flushed EXCEPT ![s] = TRUE]
            /\ wavOf' = [wavOf EXCEPT ![s] = np_concatenate(recorded_audio)]
    /\ UNCHANGED <<fnVars, uiVars, realtime_buffer, recorded_audio, nStarted,
                   cb, timerArmed, plotted,
                   seen, hRec, ideal, statusReported>>

\* The with-block is left: the stream is closed once its callback is not
\* running; an exception raised in the block then ends the thread.
CloseStream(s) ==
    /\ thread[s] \in {"leaving", "unwinding"}
    /\ cb[s].pc = "idle"
    /\ thread' = [thread EXCEPT ![s] =
                     IF thread[s] = "leaving" THEN "closed" ELSE "died"]
    /\ UNCHANGED <<fnVars, uiVars, realtime_buffer, recorded_audio, nStarted,
                   cb, timerArmed, plotted, wav, histVars>>

\* audio_callback is entered with a block, and with a status that is set
\* when the device reports an error (it is printed, nothing else).
CbBegin(s, block, status) ==
    /\ Running(s)
    /\ cb[s].pc = "idle"
    /\ nEvents < MaxEvents
    /\ nEvents' = nEvents + 1
    /\ cb' = [cb EXCEPT ![s] = [CbIdle EXCEPT !.pc = "gain", !.in = block]]
    /\ seen' = [seen EXCEPT ![s] = {Params}]
    /\ statusReported' = [statusReported EXCEPT ![s] = status]
    /\ UNCHANGED <<fnVars, ctlVars, realtime_buffer, recorded_audio, nStarted,
                   thread, timerArmed, plotted, wav,
                   hRec, flushed, wavOf, ideal>>

\* gain = float(self.gain_slider.get())
CbReadGain(s) ==
    /\ cb[s].pc = "gain"
    /\ cb' = [cb EXCEPT ![s].gain = gain_slider, ![s].pc = "gate"]
    /\ UNCHANGED <<fnVars, uiVars, realtime_buffer, recorded_audio, nStarted,
                   thread, timerArmed, plotted, wav, histVars>>

\* use_gate = self.noise_gate_var.get()
CbReadGate(s) ==
    /\ cb[s].pc = "gate"
    /\ cb' = [cb EXCEPT ![s].gate = noise_gate_var, ![s].pc = "record"]
    /\ UNCHANGED <<fnVars, uiVars, realtime_buffer, recorded_audio, nStarted,
                   thread, timerArmed, plotted, wav, histVars>>

\* record = self.record_var.get(), then the block is conditioned and
\* handed to the device (outdata[:, 0] = audio_out).
CbProcess(s) ==
    /\ cb[s].pc = "record"
    /\ cb' = [cb EXCEPT
                ![s].rec = record_var,
                ![s].out = audio_callback_out(cb[s].in, Zeros(blocksize),
                                              cb[s].gain, cb[s].gate).x,
                ![s].pc = "roll"]
    /\ UNCHANGED <<fnVars, uiVars, realtime_buffer, recorded_audio, nStarted,
                   thread, timerArmed, plotted, wav, histVars>>

\* self.realtime_buffer = np.roll(self.realtime_buffer, -frames)
CbRoll(s) ==
    /\ cb[s].pc = "roll"
    /\ realtime_buffer' = np_roll(realtime_buffer, Len(cb[s].in))
    /\ cb' = [cb EXCEPT ![s].pc = "write", ![s].w = 1]
    /\ seen' = [seen EXCEPT ![s] = {}]
    /\ ideal' = SubSeq(ideal, Len(cb[s].in) + 1, fs) \o cb[s].out
    /\ UNCHANGED <<fnVars, uiVars, recorded_audio, nStarted, thread,
                   timerArmed, plotted, wav,
                   hRec, flushed, wavOf, statusReported>>

\* self.realtime_buffer[-frames:] = audio_out, one sample at a time
CbWrite(s) ==
    /\ cb[s].pc = "write"
    /\ realtime_buffer' =
           [realtime_buffer EXCEPT ![fs - Len(cb[s].in) + cb[s].w] = cb[s].out[cb[s].w]]
    /\ cb' = [cb EXCEPT ![s].w = @ + 1,
                        ![s].pc = IF cb[s].w = Len(cb[s].in) THEN "append" ELSE "write"]
    /\ UNCHANGED <<fnVars, uiVars, recorded_audio, nStarted, thread,
                   timerArmed, plotted, wav, histVars>>

\* if record: self.recorded_audio.append(audio_out.copy()); the callback
\* returns.
CbAppend(s) ==
    /\ cb[s].pc = "append"
    /\ recorded_audio' = IF cb[s].rec THEN Append(recorded_audio, cb[s].out)
                                      ELSE recorded_audio
    /\ hRec' = [hRec EXCEPT ![s] = IF cb[s].rec THEN @ \o cb[s].out ELSE @]
    /\ cb' = [cb EXCEPT ![s] = CbIdle]
    /\ statusReported' = [statusReported EXCEPT ![s] = FALSE]
    /\ UNCHANGED <<fnVars, uiVars, realtime_buffer, nStarted, thread,
                   timerArmed, plotted, wav,
                   seen, flushed, wavOf, ideal>>

Next ==
    \/ \E g \in GainValues : SetGain(g)
    \/ ToggleGate
    \/ ToggleRecord
    \/ realtime_process
    \/ update_plot
    \/ \E s \in Sessions : OpenStream(s)
    \/ \E s \in Sessions : OpenFails(s)
    \/ \E s \in Sessions : SleepEnds(s)
    \/ \E s \in Sessions : CloseStream(s)
    \/ \E s \in Sessions, block \in StreamBlocks, status \in BOOLEAN :
           CbBegin(s, block, status)
    \/ \E s \in Sessions : CbReadGain(s)
    \/ \E s \in Sessions : CbReadGate(s)
    \/ \E s \in Sessions : CbProcess(s)
    \/ \E s \in Sessions : CbRoll(s)
    \/ \E s \in Sessions : CbWrite(s)
    \/ \E s \in Sessions : CbAppend(s)

Spec == Init /\ [][Next]_vars

\* ----------------------------------------------------------------- claims
Returned == fnOut # Pending

IsPrefix(p, q) == Len(p) <= Len(q) /\ SubSeq(q, 1, Len(p)) = p

\* C1: every sample that the gain/clip stage produces (amplify, process_audio
\* and the two callbacks built on them) lies in [-1.0, 1.0], for every block
\* and every gain.
C1_ClippedOutputInRange ==
    (Returned /\ fnCall.op \in {"amplify", "process_audio", "audio_callback", "callback"})
        => InRange(fnOut.x)

\* A block whose amplified samples exceed 1.0 has been clipped.
C1_Witness ==
    /\ Returned
    /\ fnCall.op = "amplify"
    /\ fnCall.gain = 10
    /\ \E i \in 1..Len(fnCall.audio) :
           fnCall.audio[i] * fnCall.gain > One /\ fnOut.x[i] = One

\* C2: the parameters a callback uses for a block are a parameter state that
\* existed at one instant while the callback was reading them.
C2_SnapshotIsOneState ==
    \A s \in Sessions :
        cb[s].pc = "roll" => <<cb[s].gain, cb[s].gate, cb[s].rec>> \in seen[s]

\* C3: a stream that ends after recording blocks has written the recording,
\* whatever the record box says at the end, and a stream that recorded
\* nothing ends without an exception.
C3_FlushedWhenRecorded ==
    \A s \in Sessions :
        /\ (thread[s] = "closed" /\ hRec[s] # <<>>) => flushed[s]
        /\ hRec[s] = <<>> => thread[s] # "unwinding"

\* C4: what a stream wrote to the file is the concatenation, in arrival
\* order, of every block its callback processed with recording on.  Stated
\* for a console whose start button has been pressed once, so that the
\* recording list is this stream's alone.
C4_FlushIsWhatWasRecorded ==
    \A s \in Sessions :
        (nStarted = 1 /\ thread[s] = "closed" /\ flushed[s]) => wavOf[s] = hRec[s]

\* C5: the rolling buffer always holds fs samples, and whenever no write is
\* in progress they are the last fs samples written, in arrival order, after
\* zeros.
C5_RingHoldsLatest ==
    /\ Len(realtime_buffer) \in {0, fs}
    /\ (\A s \in Sessions : cb[s].pc # "write") => realtime_buffer = ideal

\* C6: spectral_subtraction, and the callback's whole conditioning, return a
\* block as long as the block they were given, for every length.
C6_LengthPreserved ==
    (Returned /\ fnCall.op \in {"spectral_subtraction", "audio_callback"})
        => (~fnOut.raised /\ Len(fnOut.x) = Len(fnCall.audio))

\* C7: once the device has reported an error to a stream's callback, that
\* stream is no longer running.
C7_DeviceErrorEndsSession ==
    \A s \in Sessions : statusReported[s] => ~Running(s)

Suppression == {"spectral", "gate", "highpass"}

C9_PlotInRange ==
    plotted # <<>> => (Len(plotted) = fs /\ InRange(plotted))

\* The timer has read the buffer in the middle of a write: the first sample
\* of the new block is in place, the last place still holds an old sample
\* that the roll wrapped around.
C9_Witness ==
    \E s \in Sessions :
        /\ cb[s].pc = "write"
        /\ cb[s].w = 2
        /\ plotted = realtime_buffer
        /\ plotted[fs - blocksize + 1] = cb[s].out[1]
        /\ plotted[fs - blocksize + 1] # 0
        /\ plotted[fs] # cb[s].out[blocksize]
        /\ plotted[fs] # 0

\* C10: at most one stream is running at any time, and while a stream is
\* running the buffer and the recording list are not replaced: the list only
\* grows by appended blocks.
C10_OneSessionAtATime ==
    [][/\ Cardinality({s \in Sessions : Running(s)'}) <= 1
       /\ (\E s \in Sessions : Running(s)) => IsPrefix(recorded_audio, recorded_audio')
      ]_vars
=============================================================================
